---- MODULE Spec2Model ----
(***************************************************************************)
(* Model of the outbreak-mention ingestion pipeline:                       *)
(*   src/src/collection.py  the four source collectors                     *)
(*   src/src/process.py     preprocess_data (normalise, dedup, coerce)     *)
(*                                                                         *)
(* Text that the keyword filter inspects is a sequence of one-character    *)
(* strings, so that str.lower() and the substring test `kw in text` are    *)
(* computed, not assumed.  Text that the code only copies (links, dates)   *)
(* is an opaque string.                                                    *)
(***************************************************************************)
EXTENDS Integers, Sequences, FiniteSets, TLC

VARIABLES
    pc,        \* which function has been called: "start" before any call
    input,     \* what the outside world supplied to that call
    outcome,   \* "none" | "returned" | "raised" : how control left the function
    result,    \* the value returned (meaningful when outcome = "returned")
    driver,    \* selenium session: "none" | "running" | "quit"
    checked,   \* HealthMap: indexes of the markers the keyword filter was evaluated on
    raw_data,  \* preprocess_data: the snapshot passed in
    df         \* preprocess_data: the DataFrame returned, a sequence of [idx, row]

vars == <<pc, input, outcome, result, driver, checked, raw_data, df>>

----------------------------------------------------------------------------
(* Bounds of the model.                                                    *)

MaxItems == 2        \* items in a WHO feed / results in a CDC response
MaxMarkers == 2      \* marker divs inside the HealthMap map_canvas
MaxEvents == 12      \* <li> elements in the Wikipedia page
MaxIrrelevant == 2   \* of which at most this many carry no keyword
MaxRecords == 2      \* raw records in a snapshot given to preprocess_data

----------------------------------------------------------------------------
(* Python strings as character sequences.                                  *)

UpperCase == <<"A", "B", "C", "D", "E", "F", "G", "H", "I", "J", "K", "L", "M", "N", "O", "P", "Q", "R", "S", "T", "U", "V", "W", "X", "Y", "Z">>

LowerCase == <<"a", "b", "c", "d", "e", "f", "g", "h", "i", "j", "k", "l", "m", "n", "o", "p", "q", "r", "s", "t", "u", "v", "w", "x", "y", "z">>

\* one character of str.lower()
LowerChar(c) ==
    IF \E i \in 1..Len(UpperCase) : UpperCase[i] = c
    THEN LowerCase[CHOOSE i \in 1..Len(UpperCase) : UpperCase[i] = c]
    ELSE c

\* str.lower()
Lower(s) == [i \in 1..Len(s) |-> LowerChar(s[i])]

\* the Python test `kw in s` on strings
Contains(s, kw) ==
    \E i \in 0..(Len(s) - Len(kw)) : SubSeq(s, i + 1, i + Len(kw)) = kw

\* str.strip(): drop leading and trailing blanks
RECURSIVE LStrip(_)
LStrip(s) == IF s # <<>> /\ Head(s) = " " THEN LStrip(Tail(s)) ELSE s

RECURSIVE RStrip(_)
RStrip(s) ==
    IF s # <<>> /\ s[Len(s)] = " " THEN RStrip(SubSeq(s, 1, Len(s) - 1)) ELSE s

Strip(s) == RStrip(LStrip(s))

\* dict.get(key, default) on a record modelled as a function
Get(item, key, default) == IF key \in DOMAIN item THEN item[key] ELSE default

Range(s) == {s[i] : i \in 1..Len(s)}

\* all sequences over S of length at most n
SeqsUpTo(S, n) == UNION {[1..k -> S] : k \in 0..n}

----------------------------------------------------------------------------
(* Configuration of collection.py.                                         *)

OUTBREAK_KEYWORDS == <<
    <<"o", "u", "t", "b", "r", "e", "a", "k">>,
    <<"e", "p", "i", "d", "e", "m", "i", "c">>,
    <<"p", "a", "n", "d", "e", "m", "i", "c">>,
    <<"i", "n", "f", "e", "c", "t", "i", "o", "n">>,
    <<"d", "i", "s", "e", "a", "s", "e">>,
    <<"v", "i", "r", "u", "s">>,
    <<"h", "e", "a", "l", "t", "h", " ", "e", "m", "e", "r", "g", "e", "n", "c", "y">>,
    <<"I", "n", "f", "l", "u", "e", "n", "z", "a">> >>

\* the cut of outbreak_events[:10]
EventLimit == 10

\* any(keyword.lower() in text.lower() for keyword in OUTBREAK_KEYWORDS)
\* the filter of fetch_who_data, fetch_healthmap_data, fetch_wikipedia_data
MatchesLowered(text) ==
    \E k \in 1..Len(OUTBREAK_KEYWORDS) :
        Contains(Lower(text), Lower(OUTBREAK_KEYWORDS[k]))

\* any(keyword in combined_text for keyword in OUTBREAK_KEYWORDS)
\* the filter of fetch_cdc_data: combined_text is lowered, the keyword is not
MatchesRaw(combined_text) ==
    \E k \in 1..Len(OUTBREAK_KEYWORDS) :
        Contains(combined_text, OUTBREAK_KEYWORDS[k])

----------------------------------------------------------------------------
(* Sample texts the inputs are drawn from.                                 *)

TXT_Outbreak == <<"O", "u", "t", "b", "r", "e", "a", "k">>
TXT_INFLUENZA == <<"I", "N", "F", "L", "U", "E", "N", "Z", "A">>
TXT_Influenza == <<"I", "n", "f", "l", "u", "e", "n", "z", "a">>
TXT_Budget == <<"B", "u", "d", "g", "e", "t">>
TXT_review == <<"r", "e", "v", "i", "e", "w">>
TXT_virus == <<"v", "i", "r", "u", "s">>
TXT_health == <<"h", "e", "a", "l", "t", "h">>
TXT_emergency == <<"e", "m", "e", "r", "g", "e", "n", "c", "y">>
TXT_YourLocation == <<"Y", "o", "u", "r", " ", "L", "o", "c", "a", "t", "i", "o", "n">>
TXT_YourLocationPadded == <<" ", "Y", "o", "u", "r", " ", "L", "o", "c", "a", "t", "i", "o", "n", " ">>
TXT_yourlocation == <<"y", "o", "u", "r", " ", "l", "o", "c", "a", "t", "i", "o", "n">>
TXT_NA == <<"N", "/", "A">>
TXT_WikiPrefix == <<"h", "t", "t", "p", "s", ":", "/", "/", "e", "n", ".", "w", "i", "k", "i", "p", "e", "d", "i", "a", ".", "o", "r", "g">>

\* how requests.get(...) followed by raise_for_status() can end
GetOutcomes == {"ok", "connection_error", "timeout", "http_error"}

Init ==
    /\ pc = "start"
    /\ input = <<>>
    /\ outcome = "none"
    /\ result = <<>>
    /\ driver = "none"
    /\ checked = {}
    /\ raw_data = <<>>
    /\ df = <<>>

----------------------------------------------------------------------------
(* fetch_who_data                                                          *)

\* an <item> of the feed: the child elements it has, with their text
WhoItem(D, t, d) ==
    [f \in D |-> CASE f = "title" -> t
                  [] f = "description" -> d
                  [] f = "link" -> "L1"
                  [] f = "pubDate" -> "P1"]

WhoItemShapes ==
    {WhoItem(D, t, d) :
        D \in SUBSET {"title", "description", "link", "pubDate"},
        t \in {TXT_Outbreak, TXT_Budget},
        d \in {TXT_INFLUENZA, TXT_review}}

\* the dict appended for an accepted item
WhoRecord(item) ==
    [source |-> "WHO",
     title |-> item.title,
     link |-> item.link,
     description |-> item.description,
     pubDate |-> item.pubDate]

\* the body of `for item in items:` run over items[i..]; item.title is None
\* when the element is absent, and None.text raises AttributeError
RECURSIVE WhoLoop(_, _, _)
WhoLoop(items, i, who_data) ==
    IF i > Len(items) THEN [raised |-> FALSE, data |-> who_data]
    ELSE LET item == items[i] IN
         IF "title" \notin DOMAIN item \/ "description" \notin DOMAIN item
         THEN [raised |-> TRUE, data |-> who_data]
         ELSE IF MatchesLowered(item.title \o item.description)
              THEN IF "link" \notin DOMAIN item \/ "pubDate" \notin DOMAIN item
                   THEN [raised |-> TRUE, data |-> who_data]
                   ELSE WhoLoop(items, i + 1, Append(who_data, WhoRecord(item)))
              ELSE WhoLoop(items, i + 1, who_data)

\* the value fetch_who_data returns: the whole body is inside try/except
WhoReturn(in) ==
    IF in.get # "ok" THEN <<>>
    ELSE LET r == WhoLoop(in.items, 1, <<>>) IN
         IF r.raised THEN <<>> ELSE r.data

fetch_who_data ==
    /\ pc = "start"
    /\ \E get \in GetOutcomes :
       \E items \in IF get = "ok" THEN SeqsUpTo(WhoItemShapes, MaxItems) ELSE {<<>>} :
          /\ input' = [get |-> get, items |-> items]
          /\ result' = WhoReturn(input')
    /\ pc' = "who"
    /\ outcome' = "returned"
    /\ UNCHANGED <<driver, checked, raw_data, df>>

----------------------------------------------------------------------------
(* fetch_cdc_data                                                          *)

\* one element of cdc_json["results"]: the keys it has, with their values
CdcItem(D, n, d) ==
    [f \in D |-> CASE f = "name" -> n
                  [] f = "description" -> d
                  [] f = "url" -> "U1"
                  [] f = "datePublished" -> "P1"]

CdcItemShapes ==
    {CdcItem(D, n, d) :
        D \in SUBSET {"name", "description", "url", "datePublished"},
        n \in {TXT_virus, TXT_Budget, TXT_health},
        d \in {TXT_INFLUENZA, TXT_Influenza, TXT_review, TXT_emergency}}

\* combined_text = f"{title} {description}".lower()
CdcCombinedText(title, description) == Lower(title \o <<" ">> \o description)

\* the dict appended for an accepted result
CdcRecord(item) ==
    [source |-> "CDC",
     title |-> Get(item, "name", TXT_NA),
     description |-> Get(item, "description", TXT_NA),
     link |-> Get(item, "url", "N/A"),
     pubDate |-> Get(item, "datePublished", "N/A")]

\* the body of `for item in cdc_json.get("results", []):` run over results[i..]
RECURSIVE CdcLoop(_, _, _)
CdcLoop(results, i, cdc_data) ==
    IF i > Len(results) THEN cdc_data
    ELSE LET item == results[i]
             title == Get(item, "name", TXT_NA)
             description == Get(item, "description", TXT_NA)
         IN  IF MatchesRaw(CdcCombinedText(title, description))
             THEN CdcLoop(results, i + 1, Append(cdc_data, CdcRecord(item)))
             ELSE CdcLoop(results, i + 1, cdc_data)

\* the value fetch_cdc_data returns: the whole body is inside try/except;
\* response.json() raises on a body that is not JSON
CdcReturn(in) ==
    IF in.get # "ok" \/ ~in.json_ok THEN <<>>
    ELSE CdcLoop(Get(in.cdc_json, "results", <<>>), 1, <<>>)

fetch_cdc_data ==
    /\ pc = "start"
    /\ \E get \in GetOutcomes :
       \E json_ok \in IF get = "ok" THEN BOOLEAN ELSE {TRUE} :
       \E has_results \in IF get = "ok" /\ json_ok THEN BOOLEAN ELSE {TRUE} :
       \E results \in IF get = "ok" /\ json_ok /\ has_results
                       THEN SeqsUpTo(CdcItemShapes, MaxItems) ELSE {<<>>} :
          /\ input' = [get |-> get, json_ok |-> json_ok,
                       cdc_json |-> IF has_results
                                    THEN [k \in {"results"} |-> results]
                                    ELSE [k \in {} |-> <<>>]]
          /\ result' = CdcReturn(input')
    /\ pc' = "cdc"
    /\ outcome' = "returned"
    /\ UNCHANGED <<driver, checked, raw_data, df>>

----------------------------------------------------------------------------
(* fetch_healthmap_data                                                    *)

\* a <div title=...> inside map_canvas, with the text of its first <p> if any
Marker(D, t, p) == [f \in D |-> IF f = "title" THEN t ELSE p]

MarkerShapes ==
    {Marker(D, t, p) :
        D \in {{"title"}, {"title", "p"}},
        t \in {TXT_YourLocation, TXT_YourLocationPadded, TXT_virus, TXT_Budget},
        p \in {TXT_Outbreak, TXT_review}}

\* HealthMapLoop without the `continue` on a "your location" title
RECURSIVE HealthMapLoopNoSkip(_, _, _, _, _)
HealthMapLoopNoSkip(outbreak_sections, today, i, healthmap_data, seen) ==
    IF i > Len(outbreak_sections)
    THEN [data |-> healthmap_data, checked |-> seen]
    ELSE LET section == outbreak_sections[i]
             title == Strip(section.title)
             description == IF "p" \in DOMAIN section THEN Strip(section.p) ELSE TXT_NA
         IN  IF MatchesLowered(title \o <<" ">> \o description)
             THEN HealthMapLoopNoSkip(outbreak_sections, today, i + 1,
                                      Append(healthmap_data,
                                             [source |-> "HealthMap",
                                              title |-> title,
                                              description |-> description,
                                              location |-> "Unknown",
                                              pubDate |-> today]),
                                      seen \cup {i})
             ELSE HealthMapLoopNoSkip(outbreak_sections, today, i + 1,
                                      healthmap_data, seen \cup {i})

\* the body of `for section in outbreak_sections:` run over sections[i..];
\* seen collects the indexes on which the keyword test was evaluated
RECURSIVE HealthMapLoop(_, _, _, _, _)
HealthMapLoop(outbreak_sections, today, i, healthmap_data, seen) ==
    IF i > Len(outbreak_sections)
    THEN [data |-> healthmap_data, checked |-> seen]
    ELSE LET section == outbreak_sections[i]
             title == Strip(section.title)
             description == IF "p" \in DOMAIN section THEN Strip(section.p) ELSE TXT_NA
         IN  IF Contains(Lower(title), TXT_yourlocation)
             THEN HealthMapLoop(outbreak_sections, today, i + 1, healthmap_data, seen)
             ELSE IF MatchesLowered(title \o <<" ">> \o description)
                  THEN HealthMapLoop(outbreak_sections, today, i + 1,
                                     Append(healthmap_data,
                                            [source |-> "HealthMap",
                                             title |-> title,
                                             description |-> description,
                                             location |-> "Unknown",
                                             pubDate |-> today]),
                                     seen \cup {i})
                  ELSE HealthMapLoop(outbreak_sections, today, i + 1,
                                     healthmap_data, seen \cup {i})

\* where the browser work fails, if it does
HealthMapFailures == {"none", "start", "load", "wait_canvas", "wait_markers"}

\* how fetch_healthmap_data ends on input in: webdriver.Chrome(...) and
\* driver.get(url) stand before the try, the two waits and the parse inside it
HealthMapRun(in) ==
    IF in.fail_at = "start"
    THEN [outcome |-> "raised", result |-> <<>>, driver |-> "none", checked |-> {}]
    ELSE IF in.fail_at = "load"
    THEN [outcome |-> "raised", result |-> <<>>, driver |-> "running", checked |-> {}]
    ELSE IF in.fail_at \in {"wait_canvas", "wait_markers"}
    THEN [outcome |-> "returned", result |-> <<>>, driver |-> "quit", checked |-> {}]
    ELSE IF ~in.has_section
    THEN [outcome |-> "returned", result |-> <<>>, driver |-> "quit", checked |-> {}]
    ELSE LET r == HealthMapLoop(in.markers, in.today, 1, <<>>, {}) IN
         [outcome |-> "returned", result |-> r.data, driver |-> "quit",
          checked |-> r.checked]

fetch_healthmap_data ==
    /\ pc = "start"
    /\ \E fail_at \in HealthMapFailures :
       \E has_section \in IF fail_at = "none" THEN BOOLEAN ELSE {TRUE} :
       \E markers \in IF fail_at = "none" /\ has_section
                       THEN SeqsUpTo(MarkerShapes, MaxMarkers) ELSE {<<>>} :
          /\ input' = [fail_at |-> fail_at, has_section |-> has_section,
                       markers |-> markers, today |-> "2025-03-01"]
          /\ LET r == HealthMapRun(input') IN
                /\ outcome' = r.outcome
                /\ result' = r.result
                /\ driver' = r.driver
                /\ checked' = r.checked
    /\ pc' = "healthmap"
    /\ UNCHANGED <<raw_data, df>>

----------------------------------------------------------------------------
(* fetch_wikipedia_data                                                    *)

\* the href of the link inside the i-th <li> of the page
Href(i) == <<"/">> \o [k \in 1..i |-> "x"]

\* an <li>: its text and the attribute dicts of the <a> tags inside it
\* (kind "href": a hyperlink, "nohref": an <a> without href, "none": no <a>)
ListItem(i, relevant, kind) ==
    [text |-> IF relevant THEN TXT_Outbreak ELSE TXT_Budget,
     anchors |-> CASE kind = "href" -> <<[a \in {"href"} |-> Href(i)]>>
                   [] kind = "nohref" -> <<[a \in {} |-> <<>>]>>
                   [] kind = "none" -> <<>>]

\* the body of `for event in section.find_all("li"):` run over lis[i..];
\* link_tag['href'] raises KeyError when the first <a> has no href
RECURSIVE WikiEventLoop(_, _, _)
WikiEventLoop(lis, i, outbreak_events) ==
    IF i > Len(lis) THEN [raised |-> FALSE, events |-> outbreak_events]
    ELSE LET event == lis[i]
             event_text == Strip(event.text)
         IN  IF MatchesLowered(event_text)
             THEN IF event.anchors # <<>> /\ "href" \notin DOMAIN event.anchors[1]
                  THEN [raised |-> TRUE, events |-> outbreak_events]
                  ELSE WikiEventLoop(lis, i + 1,
                           Append(outbreak_events,
                                  [title |-> event_text,
                                   link |-> IF event.anchors # <<>>
                                            THEN TXT_WikiPrefix \o event.anchors[1].href
                                            ELSE TXT_NA]))
             ELSE WikiEventLoop(lis, i + 1, outbreak_events)

\* `for section in event_sections:` run over event_sections[s..]
RECURSIVE WikiSectionLoop(_, _, _)
WikiSectionLoop(event_sections, s, outbreak_events) ==
    IF s > Len(event_sections) THEN [raised |-> FALSE, events |-> outbreak_events]
    ELSE LET r == WikiEventLoop(event_sections[s], 1, outbreak_events) IN
         IF r.raised THEN r ELSE WikiSectionLoop(event_sections, s + 1, r.events)

\* outbreak_events[:10]
FirstN(s, n) == SubSeq(s, 1, IF Len(s) < n THEN Len(s) ELSE n)

\* the value fetch_wikipedia_data returns: the whole body is inside try/except
WikiReturn(in) ==
    LET r == IF in.get = "ok" THEN WikiSectionLoop(in.event_sections, 1, <<>>)
             ELSE [raised |-> TRUE, events |-> <<>>]
    IN  [source |-> "Wikipedia",
         title |-> "Current Outbreak Events",
         events |-> IF r.raised THEN <<>> ELSE FirstN(r.events, EventLimit)]

\* the pages: n <li> elements of which those at the positions in irrelevant
\* carry no keyword, cut into one section or two; at most one <li>, the first
\* or the last, has something other than a hyperlink as its first <a>
WikiPage(n, irrelevant, sp, split) ==
    LET lis == [i \in 1..n |->
                  ListItem(i, i \notin irrelevant, IF i = sp[1] THEN sp[2] ELSE "href")]
    IN  IF split = 0 THEN <<lis>>
        ELSE <<SubSeq(lis, 1, split), SubSeq(lis, split + 1, n)>>

WikiPages ==
    UNION {{WikiPage(n, irrelevant, sp, split) :
               irrelevant \in {I \in SUBSET (1..n) : Cardinality(I) <= MaxIrrelevant},
               sp \in {<<0, "href">>} \cup ({1, n} \X {"none", "nohref"}),
               split \in {0, n \div 2}} : n \in 0..MaxEvents}

fetch_wikipedia_data ==
    /\ pc = "start"
    /\ \E get \in GetOutcomes :
       \E event_sections \in IF get = "ok" THEN WikiPages ELSE {<<>>} :
          /\ input' = [get |-> get, event_sections |-> event_sections]
          /\ result' = WikiReturn(input')
    /\ pc' = "wikipedia"
    /\ outcome' = "returned"
    /\ UNCHANGED <<driver, checked, raw_data, df>>

----------------------------------------------------------------------------
(* preprocess_data                                                         *)

\* the values of a DataFrame cell: a string, None, a Timestamp, or NaT
Str(s) == [t |-> "str", v |-> s]
None == [t |-> "none", v |-> ""]
Timestamp(s) == [t |-> "ts", v |-> s]
NaT == [t |-> "NaT", v |-> ""]

\* the strings pd.to_datetime can parse, among those the snapshots use
ParsableDates == {"2024-01-05", "2024-02-10"}

Columns == {"source", "title", "description", "link", "pubDate", "location"}

\* the dict appended to combined for one raw record of `source`
CombinedRow(source, item) ==
    [source |-> Get(item, "source", Str(source)),
     title |-> Get(item, "title", Str("")),
     description |-> Get(item, "description", Str("")),
     link |-> Get(item, "link", Str("")),
     pubDate |-> Get(item, "pubDate", Str("")),
     location |-> Get(item, "location", Str("Unknown"))]

\* the sources preprocess_data reads, in the order of its loop
SourceOrder == <<"WHO", "CDC", "HealthMap">>

\* the raw records in the order the two loops visit them, with their source
RECURSIVE Entries(_, _)
Entries(raw, sources) ==
    IF sources = <<>> THEN <<>>
    ELSE LET source == Head(sources)
             entries == Get(raw, source, <<>>)
         IN  [i \in 1..Len(entries) |-> [source |-> source, item |-> entries[i]]]
             \o Entries(raw, Tail(sources))

\* combined, as built by `for source in ["WHO", "CDC", "HealthMap"]:`
Combined(raw) ==
    LET es == Entries(raw, SourceOrder) IN
    [k \in 1..Len(es) |-> CombinedRow(es[k].source, es[k].item)]

\* pd.DataFrame(combined): the rows under their index labels 0, 1, ...
DataFrame(combined) == [k \in 1..Len(combined) |-> [idx |-> k - 1, row |-> combined[k]]]

\* df.drop_duplicates(): a row equal in every column to an earlier one goes,
\* None counting as equal to None
RECURSIVE DropDuplicates(_, _, _)
DropDuplicates(frame, k, kept) ==
    IF k > Len(frame) THEN kept
    ELSE IF \E j \in 1..Len(kept) : kept[j].row = frame[k].row
         THEN DropDuplicates(frame, k + 1, kept)
         ELSE DropDuplicates(frame, k + 1, Append(kept, frame[k]))

\* df.fillna("Unknown")
FillNa(frame) ==
    [k \in 1..Len(frame) |->
        [idx |-> frame[k].idx,
         row |-> [c \in Columns |->
                     IF frame[k].row[c] = None THEN Str("Unknown") ELSE frame[k].row[c]]]]

\* pd.to_datetime(x, errors="coerce") on one cell
ToDatetime(x) ==
    IF x.t = "str" /\ x.v \in ParsableDates THEN Timestamp(x.v) ELSE NaT

\* df["pubDate"] = pd.to_datetime(df["pubDate"], errors="coerce")
CoercePubDate(frame) ==
    [k \in 1..Len(frame) |->
        [idx |-> frame[k].idx,
         row |-> [frame[k].row EXCEPT !["pubDate"] = ToDatetime(@)]]]

\* the DataFrame preprocess_data returns
Preprocess(raw) ==
    CoercePubDate(FillNa(DropDuplicates(DataFrame(Combined(raw)), 1, <<>>)))

\* a raw record: the base record with one key dropped or one key changed
BaseRecord ==
    [f \in {"title", "description", "link", "pubDate"} |->
        CASE f = "title" -> Str("T1")
          [] f = "description" -> Str("D1")
          [] f = "link" -> Str("L1")
          [] f = "pubDate" -> Str("2024-01-05")]

Without(item, key) == [f \in (DOMAIN item) \ {key} |-> item[f]]

With(item, key, value) ==
    [f \in (DOMAIN item) \cup {key} |-> IF f = key THEN value ELSE item[f]]

RecordShapes ==
    {BaseRecord}
    \cup {Without(BaseRecord, f) : f \in {"title", "description", "link", "pubDate"}}
    \cup {With(BaseRecord, "title", v) : v \in {None, Str("Unknown")}}
    \cup {With(BaseRecord, "description", v) : v \in {Str("")}}
    \cup {With(BaseRecord, "pubDate", v) :
             v \in {None, Str("not-a-date"), Str("garbage"), Str("2024-02-10")}}
    \cup {With(BaseRecord, "source", v) :
             v \in {None, Str(""), Str("Reuters"), Str("CDC")}}
    \cup {With(BaseRecord, "location", v) : v \in {Str("Boston")}}

\* the snapshots: the records of `placed`, a sequence of <<source number,
\* record>> in source order, each under its source; a source without records
\* is an empty list or, when sparse, absent
Snapshot(placed, sparse) ==
    LET under(s) == {k \in 1..Len(placed) : placed[k][1] = s}
        list(s) == [i \in 1..Cardinality(under(s)) |->
                      placed[CHOOSE k \in under(s) :
                                Cardinality({j \in under(s) : j < k}) = i - 1][2]]
        keys == {s \in 1..3 : ~sparse \/ under(s) # {}}
    IN  [name \in {SourceOrder[s] : s \in keys} |->
            list(CHOOSE s \in 1..3 : SourceOrder[s] = name)]

preprocess_data ==
    /\ pc = "start"
    /\ \E placed \in SeqsUpTo((1..3) \X RecordShapes, MaxRecords), sparse \in BOOLEAN :
          /\ \A k \in 1..(Len(placed) - 1) : placed[k][1] <= placed[k + 1][1]
          /\ raw_data' = Snapshot(placed, sparse)
          /\ df' = Preprocess(raw_data')
    /\ pc' = "preprocess"
    /\ outcome' = "returned"
    /\ UNCHANGED <<input, result, driver, checked>>

----------------------------------------------------------------------------
Next ==
    \/ fetch_who_data
    \/ fetch_cdc_data
    \/ fetch_healthmap_data
    \/ fetch_wikipedia_data
    \/ preprocess_data

Spec == Init /\ [][Next]_vars

\* fetch_healthmap_data alone
SpecHealthMap == Init /\ [][fetch_healthmap_data]_vars

----------------------------------------------------------------------------
(* The properties.                                                         *)

\* the keyword set as the specification states it
KeywordSet ==
    {<<"o", "u", "t", "b", "r", "e", "a", "k">>,
     <<"e", "p", "i", "d", "e", "m", "i", "c">>,
     <<"p", "a", "n", "d", "e", "m", "i", "c">>,
     <<"i", "n", "f", "e", "c", "t", "i", "o", "n">>,
     <<"d", "i", "s", "e", "a", "s", "e">>,
     <<"v", "i", "r", "u", "s">>,
     <<"h", "e", "a", "l", "t", "h", " ", "e", "m", "e", "r", "g", "e", "n", "c", "y">>,
     <<"i", "n", "f", "l", "u", "e", "n", "z", "a">>}

\* case-insensitive match on any keyword of the set
IsRelevant(text) == \E kw \in KeywordSet : Contains(Lower(text), kw)

\* the subsequence of s at the positions in keep, from position i on
RECURSIVE Pick(_, _, _)
Pick(s, i, keep) ==
    IF i > Len(s) THEN <<>>
    ELSE (IF i \in keep THEN <<s[i]>> ELSE <<>>) \o Pick(s, i + 1, keep)

\* a is b with some elements left out
RECURSIVE IsSubSeq(_, _)
IsSubSeq(a, b) ==
    IF a = <<>> THEN TRUE
    ELSE IF b = <<>> THEN FALSE
    ELSE IF Head(a) = Head(b) THEN IsSubSeq(Tail(a), Tail(b))
    ELSE IsSubSeq(a, Tail(b))

RECURSIVE Flatten(_)
Flatten(ss) == IF ss = <<>> THEN <<>> ELSE Head(ss) \o Flatten(Tail(ss))

\* C1: in each of the four collectors a transport failure (GET error, timeout,
\* non-2xx status, browser start, page load, render wait) ends in a return of
\* the source's empty result, never in an exception reaching the caller.
C1_TransportFailureReturnsEmpty ==
    /\ (pc \in {"who", "cdc"} /\ input.get # "ok")
          => (outcome = "returned" /\ result = <<>>)
    /\ (pc = "wikipedia" /\ input.get # "ok")
          => (outcome = "returned" /\ result.events = <<>>)
    /\ (pc = "healthmap" /\ input.fail_at # "none")
          => (outcome = "returned" /\ result = <<>>)

\* C2: in every collector a candidate is kept exactly when its searchable text
\* contains, ignoring case, a keyword of the set; so a CDC result whose only
\* keyword is "influenza" in any case is kept.
C2_KeptIffKeyword ==
    /\ (pc = "who" /\ input.get = "ok"
           /\ \A i \in 1..Len(input.items) :
                 DOMAIN input.items[i] = {"title", "description", "link", "pubDate"})
          => \A i \in 1..Len(input.items) :
                IsRelevant(input.items[i].title \o input.items[i].description)
                   <=> WhoRecord(input.items[i]) \in Range(result)
    /\ (pc = "cdc" /\ input.get = "ok" /\ input.json_ok)
          => LET results == Get(input.cdc_json, "results", <<>>) IN
             \A i \in 1..Len(results) :
                IsRelevant(Get(results[i], "name", TXT_NA) \o <<" ">>
                              \o Get(results[i], "description", TXT_NA))
                   <=> CdcRecord(results[i]) \in Range(result)
    /\ (pc = "healthmap" /\ input.fail_at = "none")
          => \A i \in 1..Len(input.markers) :
                LET title == Strip(input.markers[i].title)
                    description == IF "p" \in DOMAIN input.markers[i]
                                   THEN Strip(input.markers[i].p) ELSE TXT_NA
                IN  ~Contains(Lower(title), TXT_yourlocation)
                       => (IsRelevant(title \o <<" ">> \o description)
                              <=> \E r \in Range(result) :
                                     r.title = title /\ r.description = description)
    /\ (pc = "wikipedia" /\ input.get = "ok"
           /\ \A e \in Range(Flatten(input.event_sections)) :
                 e.anchors = <<>> \/ "href" \in DOMAIN e.anchors[1])
          => LET lis == Flatten(input.event_sections) IN
             \A i \in 1..Len(lis) :
                (\E r \in Range(result.events) : r.title = Strip(lis[i].text))
                   => IsRelevant(Strip(lis[i].text))

\* C3: the table preprocess_data returns has no two rows equal in all of
\* source, title, description, link, pubDate, location as they stand in that
\* table (after the sentinel is filled in and pubDate is coerced).
C3_NoIdenticalRows ==
    pc = "preprocess"
       => \A i, j \in 1..Len(df) : i # j => df[i].row # df[j].row

\* the raw records of the snapshot, in the order of the rows of combined
RawEntries == Entries(raw_data, SourceOrder)

\* the row of the returned table that stands for raw record k: its own, or
\* the earlier equal one drop_duplicates kept
RowOf(k) ==
    LET combined == Combined(raw_data)
        first == CHOOSE j \in 1..k :
                    /\ combined[j] = combined[k]
                    /\ \A h \in 1..(j - 1) : combined[h] # combined[k]
    IN  {df[r].row : r \in {r \in 1..Len(df) : df[r].idx = first - 1}}

\* C4: every raw record under WHO, CDC or HealthMap that lacks title,
\* description, link or location has "Unknown" in that column of its row,
\* never the empty string or null.
C4_MissingFieldIsUnknown ==
    pc = "preprocess"
       => \A k \in 1..Len(RawEntries) :
             \A f \in {"title", "description", "link", "location"} :
                f \notin DOMAIN RawEntries[k].item
                   => \A row \in RowOf(k) : row[f] = Str("Unknown")

\* a raw record whose pubDate is there and is a string that is no date
HasUnparsablePubDate(item) ==
    /\ "pubDate" \in DOMAIN item
    /\ item.pubDate.t = "str"
    /\ item.pubDate.v \notin ParsableDates

\* C5: a row whose raw pubDate was an unparsable string is still in the table
\* with the invalid-timestamp marker, and that marker differs from the pubDate
\* of a row whose raw record had no pubDate at all.
C5_UnparsableDistinctFromAbsent ==
    pc = "preprocess"
       => \A k \in 1..Len(RawEntries) :
             HasUnparsablePubDate(RawEntries[k].item)
                => /\ RowOf(k) # {}
                   /\ \A row \in RowOf(k) : row.pubDate = NaT
                   /\ \A j \in 1..Len(RawEntries) :
                         "pubDate" \notin DOMAIN RawEntries[j].item
                            => \A row \in RowOf(k), other \in RowOf(j) :
                                  row.pubDate # other.pubDate

\* C6: every row of the returned table has a source out of WHO, CDC,
\* HealthMap, Wikipedia, whatever `source` value the raw records carry.
C6_SourceInEnumeration ==
    pc = "preprocess"
       => \A r \in 1..Len(df) :
             df[r].row.source \in {Str("WHO"), Str("CDC"), Str("HealthMap"), Str("Wikipedia")}

\* the event the collector is to emit for an <li>: its text, and the absolute
\* URL of its first hyperlink or "N/A"
ExpectedEvent(li) ==
    LET hyperlinks == Pick(li.anchors, 1,
                           {a \in 1..Len(li.anchors) : "href" \in DOMAIN li.anchors[a]})
    IN  [title |-> Strip(li.text),
         link |-> IF hyperlinks # <<>> THEN TXT_WikiPrefix \o hyperlinks[1].href
                  ELSE TXT_NA]

\* C7: for a fetched page the Wikipedia collector returns one aggregate record
\* whose events are the first 10 relevance-passing list items in document
\* order: never more than 10, none skipped for a later one, order kept.
C7_FirstTenPassingInOrder ==
    (pc = "wikipedia" /\ input.get = "ok")
       => LET lis == Flatten(input.event_sections)
              passing == Pick(lis, 1, {i \in 1..Len(lis) : IsRelevant(Strip(lis[i].text))})
          IN  /\ result.source = "Wikipedia"
              /\ Len(result.events) <= EventLimit
              /\ result.events =
                    [i \in 1..(IF Len(passing) < EventLimit THEN Len(passing)
                               ELSE EventLimit) |-> ExpectedEvent(passing[i])]

\* C8: a HealthMap marker titled "Your Location" never appears in the returned
\* records, whatever its description, and the keyword filter is not evaluated
\* on it: it is excluded before the filter.
C8_YourLocationExcluded ==
    pc = "healthmap"
       => \A i \in 1..Len(input.markers) :
             Strip(input.markers[i].title) = TXT_YourLocation
                => /\ i \notin checked
                   /\ \A r \in Range(result) : r.title # TXT_YourLocation

\* a "Your Location" marker whose description has a keyword was processed,
\* next to a marker that was kept
C8_Witness ==
    /\ pc = "healthmap"
    /\ outcome = "returned"
    /\ \E i \in 1..Len(input.markers) :
          /\ Strip(input.markers[i].title) = TXT_YourLocation
          /\ "p" \in DOMAIN input.markers[i]
          /\ IsRelevant(input.markers[i].p)
    /\ Len(result) >= 1

\* C9: whenever fetch_healthmap_data has created the browser session, the
\* session has been quit when control leaves the function.
C9_DriverQuitOnEveryExit ==
    (pc = "healthmap" /\ input.fail_at # "start") => driver = "quit"

\* C10: for a fetched feed fetch_who_data returns one record per
\* relevance-passing item in feed order, and an item lacking title,
\* description, link or pubDate does not discard the records of other items.
C10_MalformedItemKeepsOthers ==
    (pc = "who" /\ input.get = "ok")
       => LET items == input.items
              complete(i) == DOMAIN items[i] = {"title", "description", "link", "pubDate"}
              accepted == Pick(items, 1,
                               {i \in 1..Len(items) :
                                   /\ complete(i)
                                   /\ IsRelevant(items[i].title \o items[i].description)})
              expected == [i \in 1..Len(accepted) |-> WhoRecord(accepted[i])]
          IN  /\ IsSubSeq(expected, result)
              /\ (\A i \in 1..Len(items) : complete(i)) => result = expected

====
